---- MODULE Spec2Model ----
(***************************************************************************)
(* Model of the gofpdfcontrib barcode package (registry, placement         *)
(* pipeline, unit conversion) against a recording host document.           *)
(*                                                                         *)
(* Strings are sequences of one-character strings, so that the string      *)
(* concatenations of barcodeKey and uniqueBarcodeName are computed and not *)
(* assumed injective.  float64 values are exact rationals [n, d]; the      *)
(* inputs are chosen so that every intermediate of convertTo96Dpi is a     *)
(* dyadic rational that float64 holds exactly.                             *)
(***************************************************************************)
EXTENDS Integers, Sequences, FiniteSets, TLC

----------------------------------------------------------------------------
(* Bounds of the exploration *)

\* registration and Barcode calls in one run
MaxOps == 4

----------------------------------------------------------------------------
(* Values *)

RECURSIVE GCD(_, _)
GCD(a, b) == IF b = 0 THEN a ELSE GCD(b, a % b)

Abs(i) == IF i < 0 THEN 0 - i ELSE i

\* a float64 value as an exact fraction in lowest terms
Rat(n, d) ==
  LET g == GCD(Abs(n), d)
  IN IF n = 0 THEN [n |-> 0, d |-> 1] ELSE [n |-> n \div g, d |-> d \div g]

RatInt(i) == [n |-> i, d |-> 1]
RatMul(a, b) == Rat(a.n * b.n, a.d * b.d)
\* division by a positive integer constant
RatDivInt(a, i) == Rat(a.n, a.d * i)
RatMulInt(a, i) == Rat(a.n * i, a.d)

\* Go's int(f): truncation towards zero
int(r) == IF r.n >= 0 THEN r.n \div r.d ELSE 0 - ((0 - r.n) \div r.d)

\* the string of one decimal digit
Digit(i) == <<"0", "1", "2", "3", "4", "5", "6", "7", "8", "9">>[i + 1]

\* strconv.FormatFloat(v, 'E', -1, 64) for an integral v with |v| < 100:
\* sign, first digit, the remaining digits without trailing zeros after a
\* point, and a signed exponent of at least two digits
FormatFloat(v) ==
  LET a == Abs(v)
      sign == IF v < 0 THEN <<"-">> ELSE <<>>
      mant == IF a < 10 THEN <<Digit(a)>>
              ELSE IF a % 10 = 0 THEN <<Digit(a \div 10)>>
              ELSE <<Digit(a \div 10), ".", Digit(a % 10)>>
      exp == IF a < 10 THEN 0 ELSE 1
  IN sign \o mant \o <<"E", "+", "0", Digit(exp)>>

----------------------------------------------------------------------------
(* The symbols of github.com/boombuler/barcode, as far as the package uses *)
(* them: Metadata().CodeKind, Content() and Bounds().                      *)

TypeCodabar == <<"C", "o", "d", "a", "b", "a", "r">>
TypeCode128 == <<"C", "o", "d", "e", " ", "1", "2", "8">>
TypeCode39 == <<"C", "o", "d", "e", " ", "3", "9">>
TypeDataMatrix == <<"D", "a", "t", "a", "M", "a", "t", "r", "i", "x">>
TypeEAN8 == <<"E", "A", "N", " ", "8">>
TypeEAN13 == <<"E", "A", "N", " ", "1", "3">>
TypeQR == <<"Q", "R", " ", "C", "o", "d", "e">>
Type2of5 == <<"2", " ", "o", "f", " ", "5">>
Type2of5Interleaved == Type2of5 \o
  <<" ", "(", "i", "n", "t", "e", "r", "l", "e", "a", "v", "e", "d", ")">>

\* content strings the callers encode
Contents == { <<"1">> }

\* a barcode.Barcode value: kind and content as Metadata() and Content()
\* give them, variant for the encoder options the module grid depends on,
\* width and height for Bounds(); nil marks the nil interface value
Symbol(kind, content, variant) ==
  [kind |-> kind, content |-> content, variant |-> variant, nil |-> FALSE,
   width |-> IF kind = TypeQR THEN 21
             ELSE IF kind = TypeDataMatrix THEN 10
             ELSE IF kind = TypeEAN8 THEN 67
             ELSE IF kind = TypeEAN13 THEN 95
             ELSE 11 * Len(content) + 35,
   height |-> IF kind = TypeQR THEN 21
              ELSE IF kind = TypeDataMatrix THEN 10
              ELSE 1]

NilBarcode ==
  [kind |-> <<>>, content |-> <<>>, variant |-> <<>>, nil |-> TRUE,
   width |-> 0, height |-> 0]

\* symbols a caller encodes itself and hands to Register
Symbols ==
  {Symbol(TypeCode128, c, <<>>) : c \in Contents}
    \cup {Symbol(TypeQR, c, <<ecl>>) : c \in Contents, ecl \in {"L", "H"}}

\* error values
NoError == "none"
ErrNotFound == "Barcode not found"
ErrEncode == "encode"
ErrScale == "can not scale barcode to an image smaller"
ErrJpeg == "jpeg: image is too large to encode"

----------------------------------------------------------------------------
(* State *)

VARIABLES
  barcodes,   \* the package's registry: made (non-nil map) and its entries
  images,     \* the host document's image table, by image name
  ratio,      \* the host document's GetConversionRatio()
  err,        \* the argument of the host's most recent SetError, or NoError
  regCalls,   \* RegisterImageReader calls the host received, by image name
  keys,       \* how often Register has returned each key so far
  lastReg,    \* the most recent Register / Register<Symbology> call
  last,       \* the most recent Barcode call: arguments and host calls
  drawCalls,  \* Image calls the host received, by image name
  conv,       \* the most recent direct convertTo96Dpi evaluation
  nRegs,      \* number of registration calls so far
  nCalls,     \* number of Barcode calls so far
  procs,      \* the Barcode calls of concurrent callers, by goroutine
  fpdi,       \* package gofpdi: the importer shared by all ImportPage calls
  imports     \* the build and host of gofpdi and its latest ImportPage call

vars == <<barcodes, images, ratio, err, regCalls, drawCalls, keys, lastReg,
          last, conv, nRegs, nCalls, procs, fpdi, imports>>

\* the state of package gofpdi
importVars == <<fpdi, imports>>

\* a map with one entry written: m[k] = v
Put(m, k, v) == [x \in (DOMAIN m) \cup {k} |-> IF x = k THEN v ELSE m[x]]

EmptyMap == <<>>

\* a length that is 0 for every map
len_AlwaysEmpty(regs) == 0

\* len(barcodes): 0 for the nil map and for the empty map
len(regs) == Cardinality(DOMAIN regs.entries)

\* make(map[string]barcode.Barcode)
make == [entries |-> EmptyMap, made |-> TRUE]

----------------------------------------------------------------------------
(* Registry: Register, registerBarcode, barcodeKey *)

barcodeKey(bcode) == bcode.kind \o bcode.content

\* Register with a make that is not guarded by len(barcodes) == 0
Register_AlwaysMake(regs, bcode) ==
  IF bcode.nil
  THEN [panic |-> TRUE, key |-> <<>>, barcodes |-> make]
  ELSE [panic |-> FALSE, key |-> barcodeKey(bcode),
        barcodes |-> [make EXCEPT !.entries =
                        Put(make.entries, barcodeKey(bcode), bcode)]]

\* Register: the lazy make, then the key and the map write.  A nil bcode
\* panics in barcodeKey (method call on a nil interface), after the make
\* and before the write.
Register(regs, bcode) ==
  LET m == IF len(regs) = 0 THEN make ELSE regs
  IN IF bcode.nil
     THEN [panic |-> TRUE, key |-> <<>>, barcodes |-> m]
     ELSE [panic |-> FALSE, key |-> barcodeKey(bcode),
           barcodes |-> [m EXCEPT !.entries =
                           Put(m.entries, barcodeKey(bcode), bcode)]]

\* registerBarcode: SetError when the encoder failed, then Register in
\* either case
registerBarcode(regs, bcode, e) ==
  [setError |-> IF e # NoError THEN <<e>> ELSE <<>>,
   reg |-> Register(regs, bcode)]

\* an encoder that hands out the symbol together with its error
Encode_SymbolWithError(kind, content, variant, ok) ==
  [bcode |-> Symbol(kind, content, variant),
   err |-> IF ok THEN NoError ELSE ErrEncode]

\* the outcome of an encoder of the barcode library for one input: the
\* symbol and no error, or nil and an error; its verdict ok is an input
Encode(kind, content, variant, ok) ==
  IF ok THEN [bcode |-> Symbol(kind, content, variant), err |-> NoError]
  ELSE [bcode |-> NilBarcode, err |-> ErrEncode]

----------------------------------------------------------------------------
(* The host document (barcodePdf) as the package sees it: every call the  *)
(* package makes is recorded, GetImageInfo answers from the image table,  *)
(* and RegisterImageReader stores the image unless the host rejects it.   *)

Call(m, a) == [a |-> a, m |-> m]

\* a host that has no image under any name
GetImageInfo_AlwaysNil(imgs, name) == NilBarcode

\* pdf.GetImageInfo(name): the table entry, or nil
GetImageInfo(imgs, name) == IF name \in DOMAIN imgs THEN imgs[name] ELSE NilBarcode

\* a host that stores the image under a name of its own
RegisterImageReader_OtherName(imgs, name, img, accept) ==
  IF accept THEN Put(imgs, name \o <<"'">>, img) ELSE imgs

\* pdf.RegisterImageReader(name, "jpg", r): a host that accepts the bytes
\* stores them under name unless the name is taken; one that rejects them
\* stores nothing
RegisterImageReader(imgs, name, img, accept) ==
  IF accept /\ name \notin DOMAIN imgs THEN Put(imgs, name, img) ELSE imgs

----------------------------------------------------------------------------
(* Placement: uniqueBarcodeName, convertTo96Dpi, registerScaledBarcode,   *)
(* Barcode                                                                 *)

\* a map read that inserts the zero value for a key that is not in the map
mapIndex_Insert(regs, code) ==
  [ok |-> code \in DOMAIN regs.entries,
   unscaled |-> IF code \in DOMAIN regs.entries THEN regs.entries[code]
                ELSE NilBarcode,
   barcodes |-> IF code \in DOMAIN regs.entries THEN regs
                ELSE [regs EXCEPT !.entries = Put(regs.entries, code,
                                                  NilBarcode)]]

\* unscaled, ok := barcodes[code]: the entry and whether there is one; the
\* index expression of a Go map reads and leaves the map as it is
mapIndex(regs, code) ==
  [ok |-> code \in DOMAIN regs.entries,
   unscaled |-> IF code \in DOMAIN regs.entries THEN regs.entries[code]
                ELSE NilBarcode,
   barcodes |-> regs]

\* uniqueBarcodeName with the code left out of the name
uniqueBarcodeName_NoCode(code, x, y) ==
  <<"b", "a", "r", "c", "o", "d", "e", "-">> \o <<"-">>
    \o FormatFloat(x) \o FormatFloat(y)

uniqueBarcodeName(code, x, y) ==
  <<"b", "a", "r", "c", "o", "d", "e", "-">> \o code \o <<"-">>
    \o FormatFloat(x) \o FormatFloat(y)

\* convertTo96Dpi with the two resolutions exchanged
convertTo96Dpi_Swapped(k, value) ==
  RatMulInt(RatDivInt(RatMul(value, k), 96), 72)

\* value * pdf.GetConversionRatio() / 72 * 96, evaluated left to right
convertTo96Dpi(k, value) == RatMulInt(RatDivInt(RatMul(value, k), 72), 96)

\* barcode.Scale of the library: a symbol of height 1 is a linear code and
\* is stretched in width only; the scale factor is the truncated quotient
\* of the target and the intrinsic size, and a factor <= 0 is an error.
\* The scaled symbol has exactly the target size.
Scale(bc, width, height) ==
  LET fw == int(Rat(width, bc.width))
      fh == int(Rat(height, bc.height))
      factor == IF bc.height = 1 THEN fw ELSE IF fw < fh THEN fw ELSE fh
  IN IF factor <= 0
     THEN [err |-> ErrScale, bcode |-> NilBarcode]
     ELSE [err |-> NoError,
           bcode |-> [bc EXCEPT !.width = width, !.height = height]]

\* jpeg.Encode of the standard library: an image of 1<<16 pixels or more in
\* either direction is too large to encode
jpegEncode(bcode) ==
  IF bcode.width >= 65536 \/ bcode.height >= 65536 THEN ErrJpeg ELSE NoError

\* registerScaledBarcode: encode as JPEG, return the encoder's error, else
\* hand the bytes to the host and return nil whatever the host answers
registerScaledBarcode(pdf, code, bcode, accept) ==
  IF jpegEncode(bcode) # NoError
  THEN [err |-> jpegEncode(bcode), calls |-> <<>>, images |-> pdf.images]
  ELSE [err |-> NoError,
        calls |-> <<Call("RegisterImageReader", <<code, "jpg", bcode>>)>>,
        images |-> RegisterImageReader(pdf.images, code, bcode, accept)]

\* the draw call with the requested size passed on to the host
ImageCall_PassSize(bname, x, y, w, h, flow) ==
  Call("Image", <<bname, x, y, w, h, flow, "jpg", 0, "">>)

\* the draw call that ends a successful Barcode: the requested size is not
\* passed on, the image is drawn at its own size
ImageCall(bname, x, y, w, h, flow) ==
  Call("Image", <<bname, x, y, RatInt(0), RatInt(0), flow, "jpg", 0, "">>)

\* notFound without its return: the lookup of the image follows
notFound_NoReturn(pdf) ==
  [calls |-> <<Call("SetError", <<ErrNotFound>>),
               Call("GetImageInfo", <<uniqueBarcodeName(<<>>, 0, 0)>>)>>,
   images |-> pdf.images]

\* Barcode, a key that is not in the registry: SetError and return
notFound(pdf) ==
  [calls |-> <<Call("SetError", <<ErrNotFound>>)>>, images |-> pdf.images]

\* miss without the return after the SetError of a scale error
miss_NoReturn(unscaled, pdf, bname, w, h, accept) ==
  LET getRatio == <<Call("GetConversionRatio", <<>>),
                    Call("GetConversionRatio", <<>>)>>
      sc == Scale(unscaled, int(convertTo96Dpi(pdf.ratio, w)),
                  int(convertTo96Dpi(pdf.ratio, h)))
      rs == registerScaledBarcode(pdf, bname, sc.bcode, accept)
  IN IF sc.err # NoError
     THEN [returned |-> FALSE, images |-> pdf.images,
           calls |-> getRatio \o <<Call("SetError", <<sc.err>>)>>]
     ELSE IF rs.err # NoError
     THEN [returned |-> TRUE, images |-> rs.images,
           calls |-> getRatio \o rs.calls \o <<Call("SetError", <<rs.err>>)>>]
     ELSE [returned |-> FALSE, images |-> rs.images,
           calls |-> getRatio \o rs.calls]

\* Barcode, no image under bname yet: scale, then register; returned says
\* that the function returned after a SetError
miss(unscaled, pdf, bname, w, h, accept) ==
  LET getRatio == <<Call("GetConversionRatio", <<>>),
                    Call("GetConversionRatio", <<>>)>>
      sc == Scale(unscaled, int(convertTo96Dpi(pdf.ratio, w)),
                  int(convertTo96Dpi(pdf.ratio, h)))
      rs == registerScaledBarcode(pdf, bname, sc.bcode, accept)
  IN IF sc.err # NoError
     THEN [returned |-> TRUE, images |-> pdf.images,
           calls |-> getRatio \o <<Call("SetError", <<sc.err>>)>>]
     ELSE IF rs.err # NoError
     THEN [returned |-> TRUE, images |-> rs.images,
           calls |-> getRatio \o rs.calls \o <<Call("SetError", <<rs.err>>)>>]
     ELSE [returned |-> FALSE, images |-> rs.images,
           calls |-> getRatio \o rs.calls]

\* place without the test of GetImageInfo's answer: always the miss path
place_NoCacheCheck(unscaled, pdf, bname, x, y, w, h, flow, accept) ==
  LET lookup == <<Call("GetImageInfo", <<bname>>)>>
      m == miss(unscaled, pdf, bname, w, h, accept)
  IN IF m.returned
     THEN [calls |-> lookup \o m.calls, images |-> m.images]
     ELSE [calls |-> lookup \o m.calls
                       \o <<ImageCall(bname, x, y, w, h, flow)>>,
           images |-> m.images]

\* Barcode, a registered key: look the image up in the host, take the miss
\* path when it has none, and draw
place(unscaled, pdf, bname, x, y, w, h, flow, accept) ==
  LET lookup == <<Call("GetImageInfo", <<bname>>)>>
      m == miss(unscaled, pdf, bname, w, h, accept)
  IN IF GetImageInfo(pdf.images, bname).nil
     THEN IF m.returned
          THEN [calls |-> lookup \o m.calls, images |-> m.images]
          ELSE [calls |-> lookup \o m.calls
                            \o <<ImageCall(bname, x, y, w, h, flow)>>,
                images |-> m.images]
     ELSE [calls |-> lookup \o <<ImageCall(bname, x, y, w, h, flow)>>,
           images |-> pdf.images]

\* Barcode that does nothing for a host document whose error is set
Barcode_StopOnError(regs, pdf, code, x, y, w, h, flow, accept) ==
  IF pdf.err # NoError
  THEN [calls |-> <<>>, images |-> pdf.images]
  ELSE IF code \notin DOMAIN regs.entries
  THEN notFound(pdf)
  ELSE place(regs.entries[code], pdf, uniqueBarcodeName(code, x, y),
             x, y, w, h, flow, accept)

\* Barcode: the host calls it makes, in order, and the image table after
\* it.  pdf is the host document: images, ratio and err; the code reads
\* the first two through GetImageInfo and GetConversionRatio only.
Barcode(regs, pdf, code, x, y, w, h, flow, accept) ==
  IF code \notin DOMAIN regs.entries
  THEN notFound(pdf)
  ELSE place(regs.entries[code], pdf, uniqueBarcodeName(code, x, y),
             x, y, w, h, flow, accept)

----------------------------------------------------------------------------
(* Package gofpdi: ImportPage over the importer of github.com/phpdave11/    *)
(* gofpdi.  Of the importer the model keeps what ImportPage drives: the    *)
(* source file, one writer per source file with its next object ID and the *)
(* IDs of the objects it has written, and the template counter.            *)

\* source files, page numbers and boxes handed to ImportPage
Sources == {"a.pdf", "b.pdf"}
Pages == {1, 2}
Boxes == {"/MediaBox", "/CropBox"}

\* what GetNextObjectID() of a host document may answer
HostNextIDs == {3, 7}

\* objects the importer writes for one imported page
ObjsPerTemplate == 2

\* realgofpdi.NewImporter(): by default object IDs start at 1
NewImporter ==
  [sourceFile |-> "", tplN |-> 0,
   writers |-> [s \in Sources |-> [nextObjId |-> 1, objs |-> {}]]]

\* package gofpdi before its first ImportPage call: objPos tells which of
\* the two versions of the file is built (the one whose host interface has
\* ImportObjPos), nextObjectID is the host's GetNextObjectID()
NoImport(objPos, nextObjectID) ==
  [n |-> 0, calls |-> <<>>, sourceFile |-> "", objPos |-> objPos,
   nextObjectID |-> nextObjectID, pageno |-> 0, ret |-> 0]

\* fpdi.SetSourceFile(f)
SetSourceFile(fp, f) == [fp EXCEPT !.sourceFile = f]

\* fpdi.SetNextObjectID(id), on the writer of the current source file
SetNextObjectID(fp, id) ==
  [fp EXCEPT !.writers[fp.sourceFile].nextObjId = id]

\* fpdi.ImportPage(pageno, box): a new template, numbered by the counter
fpdiImportPage(fp, pageno, box) ==
  [fpdi |-> [fp EXCEPT !.tplN = @ + 1], tpl |-> fp.tplN]

\* fpdi.PutFormXobjects(): the writer of the current source file writes the
\* objects of the template under the next object IDs and answers the ID of
\* the template
PutFormXobjects(fp, tpl) ==
  LET w == fp.writers[fp.sourceFile]
      ids == w.nextObjId .. (w.nextObjId + ObjsPerTemplate - 1)
  IN [fpdi |-> [fp EXCEPT !.writers[fp.sourceFile] =
                  [nextObjId |-> w.nextObjId + ObjsPerTemplate,
                   objs |-> w.objs \cup ids]],
      tplObjIds |-> [id |-> w.nextObjId, tpl |-> tpl]]

\* fpdi.GetImportedObjects(): the objects of the current writer, by ID
GetImportedObjects(fp) == fp.writers[fp.sourceFile].objs

\* ImportPage with the start ID taken from the host document
ImportPage_HostNextID(fp, f, sourceFile, pageno, box) ==
  LET startObjId == f.nextObjectID
      f1 == SetNextObjectID(SetSourceFile(fp, sourceFile), startObjId)
      imp == fpdiImportPage(f1, pageno, box)
      put == PutFormXobjects(imp.fpdi, imp.tpl)
  IN [fpdi |-> put.fpdi, ret |-> imp.tpl,
      calls |->
        <<Call("fpdi.SetSourceFile", <<sourceFile>>),
          Call("GetNextObjectID", <<>>),
          Call("fpdi.SetNextObjectID", <<startObjId>>),
          Call("fpdi.ImportPage", <<pageno, box>>),
          Call("fpdi.PutFormXobjects", <<>>),
          Call("ImportTemplates", <<put.tplObjIds>>),
          Call("fpdi.GetImportedObjects", <<>>),
          Call("ImportObjects", <<GetImportedObjects(put.fpdi)>>)>>
        \o IF f.objPos
           THEN <<Call("fpdi.GetImportedObjHashPos", <<>>),
                  Call("ImportObjPos", <<GetImportedObjects(put.fpdi)>>)>>
           ELSE <<>>]

\* ImportPage: the importer and host calls it makes, in order, the importer
\* after it and the template id it returns
ImportPage(fp, f, sourceFile, pageno, box) ==
  LET startObjId == 3
      f1 == SetNextObjectID(SetSourceFile(fp, sourceFile), startObjId)
      imp == fpdiImportPage(f1, pageno, box)
      put == PutFormXobjects(imp.fpdi, imp.tpl)
  IN [fpdi |-> put.fpdi, ret |-> imp.tpl,
      calls |->
        <<Call("fpdi.SetSourceFile", <<sourceFile>>),
          Call("fpdi.SetNextObjectID", <<startObjId>>),
          Call("fpdi.ImportPage", <<pageno, box>>),
          Call("fpdi.PutFormXobjects", <<>>),
          Call("ImportTemplates", <<put.tplObjIds>>),
          Call("fpdi.GetImportedObjects", <<>>),
          Call("ImportObjects", <<GetImportedObjects(put.fpdi)>>)>>
        \o IF f.objPos
           THEN <<Call("fpdi.GetImportedObjHashPos", <<>>),
                  Call("ImportObjPos", <<GetImportedObjects(put.fpdi)>>)>>
           ELSE <<>>]

----------------------------------------------------------------------------
(* Inputs *)

\* host unit ratios (points per unit)
Ratios == {RatInt(1), RatInt(2)}

\* placement positions <<x, y>>
Points == {<<1, 15>>, <<15, 1>>}

\* requested sizes <<w, h>> in host units: no width, a width of whole
\* pixels, a width that is fractional in pixels, a width too large for JPEG
Sizes == {<<RatInt(0), RatInt(72)>>, <<RatInt(72), RatInt(72)>>,
          <<Rat(585, 8), RatInt(72)>>, <<RatInt(73728), RatInt(72)>>}

\* codes handed to Barcode: the registered keys and keys not registered
Codes == (DOMAIN barcodes.entries) \cup {barcodeKey(s) : s \in Symbols}

----------------------------------------------------------------------------
(* Initial state: the package variable barcodes is the nil map, the host  *)
(* document is new                                                         *)

NoCall ==
  [x |-> 0, code |-> <<>>, y |-> 0, calls |-> <<>>, w |-> RatInt(0),
   h |-> RatInt(0), flow |-> FALSE]

NoReg ==
  [bcode |-> NilBarcode, panic |-> FALSE, key |-> <<>>, encErr |-> NoError]

\* the goroutines that call Barcode concurrently
Procs == {1, 2}

\* a goroutine that is in no call of the package: unscaled, ok and info are
\* the locals of Barcode, bcode is the argument of Register, replaced says
\* of the map that Register loaded from barcodes that barcodes refers to
\* another map by now
Idle ==
  [x |-> 0, bcode |-> NilBarcode, ok |-> FALSE, code |-> <<>>,
   unscaled |-> NilBarcode, y |-> 0, calls |-> <<>>, w |-> RatInt(0),
   h |-> RatInt(0), flow |-> FALSE, pc |-> "idle", info |-> NilBarcode,
   replaced |-> FALSE]

\* the packages and a new host document whose unit ratio is one of rs, with
\* package gofpdi in one of the states is
StartWith(rs, is) ==
  /\ barcodes = [entries |-> EmptyMap, made |-> FALSE]
  /\ images = EmptyMap
  /\ ratio \in rs
  /\ err = NoError
  /\ regCalls = EmptyMap
  /\ keys = EmptyMap
  /\ lastReg = NoReg
  /\ last = NoCall
  /\ drawCalls = EmptyMap
  /\ conv = [value |-> RatInt(0), result |-> RatInt(0)]
  /\ nRegs = 0
  /\ nCalls = 0
  /\ procs = [p \in Procs |-> Idle]
  /\ fpdi = NewImporter
  /\ imports \in is

\* the packages and a new host document whose unit ratio is one of rs
Start(rs) == StartWith(rs, {NoImport(FALSE, 3)})

\* a document in points
Init == Start({RatInt(1)})

\* a document in any of the units
InitConv == Start(Ratios)

\* the host's error slot after the SetError calls of one operation
ErrAfter(e, setErrors) ==
  IF setErrors = <<>> THEN e ELSE setErrors[Len(setErrors)]

\* the calls of one method among the host calls of an operation
CallsOf(calls, m) == SelectSeq(calls, LAMBDA c : c.m = m)

----------------------------------------------------------------------------
(* Registration operations *)

\* the record of returned keys with one more return of key
Returned(ks, key) ==
  Put(ks, key, IF key \in DOMAIN ks THEN ks[key] + 1 ELSE 1)

\* the state change of a Register<Symbology> function: registerBarcode on
\* the encoder's result
Registered(enc) ==
  LET r == registerBarcode(barcodes, enc.bcode, enc.err)
  IN /\ nRegs + nCalls < MaxOps
     /\ barcodes' = r.reg.barcodes
     /\ err' = ErrAfter(err, r.setError)
     /\ keys' = IF r.reg.panic THEN keys ELSE Returned(keys, r.reg.key)
     /\ lastReg' = [bcode |-> enc.bcode, panic |-> r.reg.panic,
                    key |-> r.reg.key, encErr |-> enc.err]
     /\ nRegs' = nRegs + 1
     /\ UNCHANGED <<images, ratio, regCalls, drawCalls, last, conv, nCalls,
                    procs, importVars>>

CallRegister ==
  \E bcode \in Symbols :
    LET r == Register(barcodes, bcode)
    IN /\ nRegs + nCalls < MaxOps
       /\ barcodes' = r.barcodes
       /\ keys' = IF r.panic THEN keys ELSE Returned(keys, r.key)
       /\ lastReg' = [bcode |-> bcode, panic |-> r.panic, key |-> r.key,
                      encErr |-> NoError]
       /\ nRegs' = nRegs + 1
       /\ UNCHANGED <<images, ratio, err, regCalls, drawCalls, last, conv,
                      nCalls, procs, importVars>>

CallRegisterCodabar ==
  \E code \in Contents, ok \in BOOLEAN :
    Registered(Encode(TypeCodabar, code, <<>>, ok))

CallRegisterCode128 ==
  \E code \in Contents, ok \in BOOLEAN :
    Registered(Encode(TypeCode128, code, <<>>, ok))

CallRegisterCode39 ==
  \E code \in Contents, includeChecksum \in BOOLEAN, fullASCIIMode \in {FALSE},
     ok \in BOOLEAN :
    Registered(Encode(TypeCode39, code, <<includeChecksum, fullASCIIMode>>, ok))

CallRegisterDataMatrix ==
  \E code \in Contents, ok \in BOOLEAN :
    Registered(Encode(TypeDataMatrix, code, <<>>, ok))

\* ean.Encode detects EAN 8 or EAN 13 from the length of the code
CallRegisterEAN ==
  \E code \in Contents, ok \in BOOLEAN :
    Registered(Encode(IF Len(code) <= 8 THEN TypeEAN8 ELSE TypeEAN13,
                      code, <<>>, ok))

CallRegisterQR ==
  \E code \in Contents, ecl \in {"L", "H"}, mode \in {"Auto"}, ok \in BOOLEAN :
    Registered(Encode(TypeQR, code, <<ecl>>, ok))

\* digit strings the callers hand to RegisterTwoOfFive: an odd and an even
\* number of digits
TwoOfFiveContents == { <<"1">>, <<"1", "2">> }

\* twooffive.Encode of the barcode library on a string of digits: the
\* interleaved mode encodes the digits in pairs and rejects an odd number
\* of them, the other mode encodes any number
twooffiveEncode(content, interleaved) ==
  Encode(IF interleaved THEN Type2of5Interleaved ELSE Type2of5, content, <<>>,
         ~interleaved \/ Len(content) % 2 = 0)

CallRegisterTwoOfFive ==
  \E code \in TwoOfFiveContents, interleaved \in BOOLEAN :
    Registered(twooffiveEncode(code, interleaved))

\* symbols of a barcode.Barcode implementation of the caller's own: Register
\* takes the interface, so kind and content are whatever the value answers
CustomSymbols ==
  {Symbol(Type2of5,
          <<" ", "(", "i", "n", "t", "e", "r", "l", "e", "a", "v", "e", "d",
            ")">> \o c, <<>>) : c \in TwoOfFiveContents}

CallRegisterCustom ==
  \E bcode \in CustomSymbols :
    LET r == Register(barcodes, bcode)
    IN /\ nRegs + nCalls < MaxOps
       /\ barcodes' = r.barcodes
       /\ keys' = IF r.panic THEN keys ELSE Returned(keys, r.key)
       /\ lastReg' = [bcode |-> bcode, panic |-> r.panic, key |-> r.key,
                      encErr |-> NoError]
       /\ nRegs' = nRegs + 1
       /\ UNCHANGED <<images, ratio, err, regCalls, drawCalls, last, conv,
                      nCalls, procs, importVars>>

----------------------------------------------------------------------------
(* Placement operation *)

\* the per-name counts of the calls of method m after the host calls of
\* one operation
Count(counts, calls, m) ==
  LET regs == CallsOf(calls, m)
      named == {regs[i].a[1] : i \in DOMAIN regs}
  IN [n \in (DOMAIN counts) \cup named |->
        (IF n \in DOMAIN counts THEN counts[n] ELSE 0)
          + Cardinality({i \in DOMAIN regs : regs[i].a[1] = n})]

CallBarcode ==
  \E code \in Codes, point \in Points, size \in Sizes,
     flow \in BOOLEAN, accept \in BOOLEAN :
    LET x == point[1]
        y == point[2]
        w == size[1]
        h == size[2]
        pdf == [images |-> images, ratio |-> ratio, err |-> err]
        r == Barcode(barcodes, pdf, code, x, y, w, h, flow, accept)
    IN /\ nRegs + nCalls < MaxOps
       /\ images' = r.images
       /\ err' = ErrAfter(err, [i \in DOMAIN CallsOf(r.calls, "SetError") |->
                                  CallsOf(r.calls, "SetError")[i].a[1]])
       /\ regCalls' = Count(regCalls, r.calls, "RegisterImageReader")
       /\ drawCalls' = Count(drawCalls, r.calls, "Image")
       /\ last' = [x |-> x, code |-> code, y |-> y, calls |-> r.calls,
                   w |-> w, h |-> h, flow |-> flow]
       /\ nCalls' = nCalls + 1
       /\ barcodes' = mapIndex(barcodes, code).barcodes
       /\ UNCHANGED <<ratio, keys, lastReg, conv, nRegs, procs, importVars>>

----------------------------------------------------------------------------
(* Concurrent callers: the package holds no lock, so the Barcode and       *)
(* Register calls of two goroutines interleave.  A step of a goroutine     *)
(* runs up to and including its next access to the package variable        *)
(* barcodes or its next call of the host document that writes or draws;    *)
(* the host executes each of its methods atomically.  Unsynchronised       *)
(* accesses to barcodes are a data race: a read sees the map as it is at   *)
(* its step, and a map write that meets another access to the map may make *)
(* the Go runtime abort the program.  The map write barcodes[key] = bcode  *)
(* is three steps: the load of barcodes, the map assign of the runtime,    *)
(* which inserts the key and gives the slot of its value, and the store of *)
(* bcode into the slot.  A make of the other goroutine after the load      *)
(* leaves the entry in a map that barcodes no longer refers to, and a read *)
(* of the other goroutine between map assign and store finds the key with  *)
(* the nil symbol.  A panic of Barcode ends its call; the goroutines go on *)
(* as they do when the caller recovers.  The reads len(barcodes) and       *)
(* barcodes[code] are one step each: of two goroutines, the one that is    *)
(* not reading cannot both write into the loaded map and replace it, so    *)
(* the read gives what it gives at the load or at the index.               *)

\* the branch on the info that is looked at again in the image table
afterLookup_Fresh(info, unscaled, pdf, bname, w, h, accept) ==
  IF GetImageInfo(pdf.images, bname).nil
  THEN miss(unscaled, pdf, bname, w, h, accept)
  ELSE [returned |-> FALSE, images |-> pdf.images, calls |-> <<>>]

\* the branch of Barcode on the info that its GetImageInfo call returned:
\* the miss path for nil, nothing otherwise
afterLookup(info, unscaled, pdf, bname, w, h, accept) ==
  IF info.nil
  THEN miss(unscaled, pdf, bname, w, h, accept)
  ELSE [returned |-> FALSE, images |-> pdf.images, calls |-> <<>>]

\* the SetError arguments among host calls
SetErrors(calls) ==
  [i \in DOMAIN CallsOf(calls, "SetError") |->
     CallsOf(calls, "SetError")[i].a[1]]

\* the sizes <<w, h>> that the goroutines ask for: no width, a width that
\* is fractional in pixels, a width too large for JPEG
ParSizes == {<<RatInt(0), RatInt(72)>>, <<Rat(585, 8), RatInt(72)>>,
             <<RatInt(73728), RatInt(72)>>}

\* the position <<x, y>> at which the goroutines place
ParPoints == {<<15, 1>>}

\* goroutine p enters Barcode: unscaled, ok := barcodes[code]
BarcodeBegin(p) ==
  \E code \in Codes, point \in ParPoints, size \in ParSizes,
     flow \in {FALSE} :
    /\ nRegs + nCalls < MaxOps
    /\ procs[p].pc \in {"idle", "done", "panic"}
    /\ procs' = [procs EXCEPT ![p] =
         [Idle EXCEPT !.x = point[1], !.y = point[2], !.code = code,
                      !.w = size[1], !.h = size[2], !.flow = flow,
                      !.ok = mapIndex(barcodes, code).ok,
                      !.unscaled = mapIndex(barcodes, code).unscaled,
                      !.pc = "read"]]
    /\ nCalls' = nCalls + 1
    /\ barcodes' = mapIndex(barcodes, code).barcodes
    /\ UNCHANGED <<images, ratio, err, regCalls, drawCalls, keys, lastReg,
                   last, conv, nRegs, importVars>>

\* goroutine p goes on from the map read: SetError and return when the key
\* was not there, else the GetImageInfo call
BarcodeLookup(p) ==
  LET c == procs[p]
      pdf == [images |-> images, ratio |-> ratio, err |-> err]
      bname == uniqueBarcodeName(c.code, c.x, c.y)
      calls == IF c.ok THEN <<Call("GetImageInfo", <<bname>>)>>
               ELSE notFound(pdf).calls
  IN /\ c.pc = "read"
     /\ procs' = [procs EXCEPT
          ![p].pc = IF c.ok THEN "looked" ELSE "done",
          ![p].calls = calls,
          ![p].info = IF c.ok THEN GetImageInfo(images, bname)
                      ELSE NilBarcode]
     /\ err' = ErrAfter(err, SetErrors(calls))
     /\ UNCHANGED <<barcodes, images, ratio, regCalls, drawCalls, keys,
                    lastReg, last, conv, nRegs, nCalls, importVars>>

\* goroutine p goes on from the answer of GetImageInfo: Scale of the local
\* unscaled, registerScaledBarcode and their error returns when the answer
\* was nil
BarcodeBranch(p) ==
  \E accept \in BOOLEAN :
    LET c == procs[p]
        pdf == [images |-> images, ratio |-> ratio, err |-> err]
        b == afterLookup(c.info, c.unscaled, pdf,
                         uniqueBarcodeName(c.code, c.x, c.y), c.w, c.h,
                         accept)
    IN /\ c.pc = "looked"
       /\ ~(c.info.nil /\ c.unscaled.nil)
       /\ procs' = [procs EXCEPT ![p].pc = IF b.returned THEN "done" ELSE "draw",
                                 ![p].calls = c.calls \o b.calls]
       /\ images' = b.images
       /\ err' = ErrAfter(err, SetErrors(b.calls))
       /\ regCalls' = Count(regCalls, b.calls, "RegisterImageReader")
       /\ UNCHANGED <<barcodes, ratio, drawCalls, keys, lastReg, last, conv,
                      nRegs, nCalls, importVars>>

\* goroutine p goes on from the answer nil of GetImageInfo with a local
\* unscaled that is nil, the value of an entry whose key is in the map and
\* whose symbol is not stored yet: the arguments of barcode.Scale are
\* evaluated, and Scale calls a method of the nil interface; Barcode panics
\* and does not return
BarcodePanic(p) ==
  LET c == procs[p]
  IN /\ c.pc = "looked"
     /\ c.info.nil /\ c.unscaled.nil
     /\ procs' = [procs EXCEPT
          ![p].pc = "panic",
          ![p].calls = c.calls \o <<Call("GetConversionRatio", <<>>),
                                    Call("GetConversionRatio", <<>>)>>]
     /\ UNCHANGED <<barcodes, images, ratio, err, regCalls, drawCalls, keys,
                    lastReg, last, conv, nRegs, nCalls, importVars>>

\* goroutine p makes the Image call and returns
BarcodeDraw(p) ==
  LET c == procs[p]
      draw == <<ImageCall(uniqueBarcodeName(c.code, c.x, c.y), c.x, c.y,
                          c.w, c.h, c.flow)>>
  IN /\ c.pc = "draw"
     /\ procs' = [procs EXCEPT ![p].pc = "done", ![p].calls = c.calls \o draw]
     /\ drawCalls' = Count(drawCalls, draw, "Image")
     /\ UNCHANGED <<barcodes, images, ratio, err, regCalls, keys, lastReg,
                    last, conv, nRegs, nCalls, importVars>>

\* goroutine p enters Register: the test len(barcodes) == 0
RegisterBegin(p) ==
  \E bcode \in Symbols :
    /\ nRegs + nCalls < MaxOps
    /\ procs[p].pc \in {"idle", "done", "panic"}
    /\ procs' = [procs EXCEPT ![p] =
         [Idle EXCEPT !.pc = IF len(barcodes) = 0 THEN "make" ELSE "load",
                      !.bcode = bcode]]
    /\ nRegs' = nRegs + 1
    /\ UNCHANGED <<barcodes, images, ratio, err, regCalls, drawCalls, keys,
                   lastReg, last, conv, nCalls, importVars>>

\* goroutine p, having found the map empty, assigns a new map to barcodes;
\* a goroutine that has loaded barcodes for its map write holds the map
\* that was there before
RegisterMake(p) ==
  /\ procs[p].pc = "make"
  /\ barcodes' = make
  /\ procs' = [q \in Procs |->
                 IF q = p THEN [procs[q] EXCEPT !.pc = "load"]
                 ELSE IF procs[q].pc \in {"assign", "store"}
                 THEN [procs[q] EXCEPT !.replaced = TRUE]
                 ELSE procs[q]]
  /\ UNCHANGED <<images, ratio, err, regCalls, drawCalls, keys, lastReg, last,
                 conv, nRegs, nCalls, importVars>>

\* goroutine p computes the key and loads barcodes, the first part of
\* barcodes[key] = bcode: it holds the map that barcodes refers to now
RegisterLoad(p) ==
  /\ procs[p].pc = "load"
  /\ procs' = [procs EXCEPT ![p].pc = "assign", ![p].replaced = FALSE]
  /\ UNCHANGED <<barcodes, images, ratio, err, regCalls, drawCalls, keys,
                 lastReg, last, conv, nRegs, nCalls, importVars>>

\* the map assign of the runtime, the second part of barcodes[key] = bcode:
\* it finds the slot of the key in the loaded map, and a key that is not
\* in the map is inserted with the zero value, the nil interface; the slot
\* of a key that is in the map keeps its symbol
RegisterAssign(p) ==
  LET key == barcodeKey(procs[p].bcode)
  IN /\ procs[p].pc = "assign"
     /\ barcodes' = IF procs[p].replaced \/ key \in DOMAIN barcodes.entries
                    THEN barcodes
                    ELSE [barcodes EXCEPT !.entries = Put(@, key, NilBarcode)]
     /\ procs' = [procs EXCEPT ![p].pc = "store"]
     /\ UNCHANGED <<images, ratio, err, regCalls, drawCalls, keys, lastReg,
                    last, conv, nRegs, nCalls, importVars>>

\* goroutine p stores bcode into the slot, the last part of
\* barcodes[key] = bcode, and returns the key: the symbol is in barcodes
\* unless the loaded map has been replaced since the load
RegisterStore(p) ==
  LET bcode == procs[p].bcode
      key == barcodeKey(bcode)
  IN /\ procs[p].pc = "store"
     /\ barcodes' = IF procs[p].replaced THEN barcodes
                    ELSE [barcodes EXCEPT !.entries = Put(@, key, bcode)]
     /\ keys' = Returned(keys, key)
     /\ lastReg' = [bcode |-> bcode, panic |-> FALSE, key |-> key,
                    encErr |-> NoError]
     /\ procs' = [procs EXCEPT ![p].pc = "done"]
     /\ UNCHANGED <<images, ratio, err, regCalls, drawCalls, last, conv, nRegs,
                    nCalls, importVars>>

\* goroutine q can be at an access to the map of barcodes at the moment
\* another goroutine is in the map assign of that map: it is at its own
\* map assign of it, or it can enter Barcode and read the map
AtMapAccess(q) ==
  \/ procs[q].pc = "assign" /\ ~procs[q].replaced
  \/ procs[q].pc \in {"idle", "done", "panic"} /\ nRegs + nCalls < MaxOps

\* the map assign of goroutine p in the map of barcodes meets the access
\* of another goroutine to that map and the runtime detects it: fatal
\* error, concurrent map writes or concurrent map read and map write; the
\* program ends
RaceAbort(p) ==
  /\ procs[p].pc = "assign"
  /\ ~procs[p].replaced
  /\ \E q \in Procs \ {p} : AtMapAccess(q)
  /\ procs' = [q \in Procs |-> [procs[q] EXCEPT !.pc = "fatal"]]
  /\ UNCHANGED <<barcodes, images, ratio, err, regCalls, drawCalls, keys,
                 lastReg, last, conv, nRegs, nCalls, importVars>>

----------------------------------------------------------------------------
(* Page import *)

CallImportPage ==
  \E sourceFile \in Sources, pageno \in Pages, box \in Boxes :
    LET r == ImportPage(fpdi, imports, sourceFile, pageno, box)
    IN /\ imports.n < MaxOps
       /\ fpdi' = r.fpdi
       /\ imports' = [imports EXCEPT !.n = @ + 1,
                                     !.sourceFile = sourceFile,
                                     !.pageno = pageno,
                                     !.ret = r.ret,
                                     !.calls = r.calls]
       /\ UNCHANGED <<barcodes, images, ratio, err, regCalls, drawCalls, keys,
                      lastReg, last, conv, nRegs, nCalls, procs>>

----------------------------------------------------------------------------
(* Unit conversion on its own *)

\* values in host units handed to convertTo96Dpi
Values == {RatInt(0), RatInt(36), RatInt(72), Rat(585, 8), RatInt(73728)}

CallConvertTo96Dpi ==
  \E value \in Values :
    /\ conv' = [value |-> value, result |-> convertTo96Dpi(ratio, value)]
    /\ conv' # conv
    /\ UNCHANGED <<barcodes, images, ratio, err, regCalls, drawCalls, keys,
                   lastReg, last, nRegs, nCalls, procs, importVars>>

----------------------------------------------------------------------------
(* Specification *)

\* a document build: barcodes are registered and placed
Next ==
  \/ CallRegister
  \/ CallRegisterCode128
  \/ CallRegisterQR
  \/ CallBarcode

Spec == Init /\ [][Next]_vars

\* unit conversion next to registrations
NextConv ==
  \/ CallRegister
  \/ CallRegisterEAN
  \/ CallConvertTo96Dpi

SpecConv == InitConv /\ [][NextConv]_vars

\* the registry under every registration function of the package
NextReg ==
  \/ CallRegister
  \/ CallRegisterCodabar
  \/ CallRegisterCode128
  \/ CallRegisterCode39
  \/ CallRegisterDataMatrix
  \/ CallRegisterEAN
  \/ CallRegisterQR
  \/ CallRegisterTwoOfFive

SpecReg == Init /\ [][NextReg]_vars

\* the registry under symbols of the library and of the caller
NextKeys ==
  \/ CallRegister
  \/ CallRegisterCustom
  \/ CallRegisterTwoOfFive

SpecKeys == Init /\ [][NextKeys]_vars

\* barcodes are registered and placed by two goroutines
NextPar ==
  \/ \E p \in Procs : RegisterBegin(p)
  \/ \E p \in Procs : RegisterMake(p)
  \/ \E p \in Procs : RegisterLoad(p)
  \/ \E p \in Procs : RegisterAssign(p)
  \/ \E p \in Procs : RegisterStore(p)
  \/ \E p \in Procs : RaceAbort(p)
  \/ \E p \in Procs : BarcodeBegin(p)
  \/ \E p \in Procs : BarcodeLookup(p)
  \/ \E p \in Procs : BarcodeBranch(p)
  \/ \E p \in Procs : BarcodePanic(p)
  \/ \E p \in Procs : BarcodeDraw(p)

SpecPar == Init /\ [][NextPar]_vars

\* a host document of either build of package gofpdi
InitImport ==
  StartWith({RatInt(1)},
            {NoImport(objPos, id) : objPos \in BOOLEAN, id \in HostNextIDs})

\* pages are imported one after the other
NextImport == CallImportPage

SpecImport == InitImport /\ [][NextImport]_vars

----------------------------------------------------------------------------
(* Properties *)

\* a step that is a Barcode call; last is the call before it, last' the call
BarcodeStep == nCalls' = nCalls + 1

\* a step that is a registration call
RegisterStep == nRegs' = nRegs + 1

\* the placement name of a recorded Barcode call
NameOf(call) == uniqueBarcodeName(call.code, call.x, call.y)

\* how many calls of method m a recorded Barcode call made to the host
NumCalls(call, m) == Len(CallsOf(call.calls, m))

\* two recorded Barcode calls with the same key and position
SamePlacement(c1, c2) == c1.code = c2.code /\ c1.x = c2.x /\ c1.y = c2.y

\* the recorded Barcode call found its key in the registry
Found(call) == NumCalls(call, "GetImageInfo") = 1

\* C1 as stated: two Barcode calls in sequence with the same registered key
\* and position make exactly one RegisterImageReader call and exactly two
\* Image calls, and the host never receives more than one
\* RegisterImageReader call for a placement name.
C1_Original ==
  [][BarcodeStep =>
       /\ \A n \in DOMAIN regCalls' : regCalls'[n] <= 1
       /\ (nCalls >= 1 /\ Found(last) /\ SamePlacement(last, last')) =>
            /\ NumCalls(last, "RegisterImageReader")
                 + NumCalls(last', "RegisterImageReader") = 1
            /\ NumCalls(last, "Image") + NumCalls(last', "Image") = 2]_vars

\* C1 as amended: two Barcode calls in sequence with the same key and
\* position, the first of which registers the image with the host, make
\* exactly one RegisterImageReader call and exactly two Image calls; the
\* host never receives a RegisterImageReader call for a name that is in its
\* image table, and an entry of the table is never replaced.
C1_CacheHit ==
  [][BarcodeStep =>
       /\ \A n \in DOMAIN images :
            /\ regCalls'[n] = regCalls[n]
            /\ n \in DOMAIN images' /\ images'[n] = images[n]
       /\ (/\ nCalls >= 1
           /\ SamePlacement(last, last')
           /\ NumCalls(last, "RegisterImageReader") = 1
           /\ NameOf(last) \in DOMAIN images) =>
            /\ NumCalls(last', "RegisterImageReader") = 0
            /\ NumCalls(last, "Image") = 1
            /\ NumCalls(last', "Image") = 1]_vars

\* C1 witness: a placement name registered once and drawn twice, the second
\* time by a call that made no RegisterImageReader call
C1_Witness ==
  /\ nCalls = 2
  /\ NumCalls(last, "RegisterImageReader") = 0
  /\ NumCalls(last, "Image") = 1
  /\ NameOf(last) \in DOMAIN images
  /\ regCalls[NameOf(last)] = 1
  /\ drawCalls[NameOf(last)] = 2

\* C2: a Barcode call with a key that is not in the registry makes exactly
\* one host call, SetError("Barcode not found"): no GetImageInfo, no
\* RegisterImageReader, no Image; the image table is left alone.
C2_NotFound ==
  [][(BarcodeStep /\ last'.code \notin DOMAIN barcodes.entries) =>
       /\ NumCalls(last', "SetError") = 1
       /\ CallsOf(last'.calls, "SetError")[1].a = <<ErrNotFound>>
       /\ NumCalls(last', "Image") = 0
       /\ NumCalls(last', "GetImageInfo") = 0
       /\ NumCalls(last', "RegisterImageReader") = 0
       /\ err' = ErrNotFound
       /\ UNCHANGED <<images, regCalls, drawCalls>>]_vars

\* C2 witness: the last Barcode call was for a key that is not registered
\* and the host's error is "Barcode not found"
C2_Witness ==
  /\ nCalls >= 1
  /\ last.code \notin DOMAIN barcodes.entries
  /\ last.calls = <<Call("SetError", <<ErrNotFound>>)>>
  /\ err = ErrNotFound

\* two symbols of one kind and content
SamePair(b1, b2) == b1.kind = b2.kind /\ b1.content = b2.content

\* C3 as stated: when the encoder of a Register<Symbology> function fails,
\* the function still returns a non-empty key, the host's error is the
\* encoder's error, and the key is in the registry.
C3_Original ==
  (nRegs >= 1 /\ lastReg.encErr # NoError) =>
    /\ ~lastReg.panic
    /\ lastReg.key # <<>>
    /\ err = lastReg.encErr
    /\ lastReg.key \in DOMAIN barcodes.entries

\* C4 as stated: registering a (kind, content) pair that was registered by
\* the registration before returns the same key, leaves one entry for the
\* pair, the lookup of the key gives the same symbol data as before, and
\* there are as many entries as keys ever returned.
C4_Original ==
  [][(/\ RegisterStep
      /\ nRegs >= 1
      /\ ~lastReg.panic
      /\ ~lastReg'.panic
      /\ SamePair(lastReg.bcode, lastReg'.bcode)) =>
       /\ lastReg'.key = lastReg.key
       /\ Cardinality({k \in DOMAIN barcodes'.entries :
                         SamePair(barcodes'.entries[k], lastReg'.bcode)}) = 1
       /\ barcodes'.entries[lastReg'.key] = barcodes.entries[lastReg.key]
       /\ Cardinality(DOMAIN barcodes'.entries) = Cardinality(DOMAIN keys')
     ]_vars

\* C4 as amended: registering a (kind, content) pair that has an entry
\* returns the key of that entry and leaves exactly one entry for the pair,
\* which holds the symbol of this registration (the last write wins: the
\* registry is unchanged only when the symbol is the one already stored);
\* the keys of the entries are the keys ever returned.
C4_Idempotent ==
  [][(RegisterStep /\ ~lastReg'.panic) =>
       /\ \A k \in DOMAIN barcodes.entries :
            SamePair(barcodes.entries[k], lastReg'.bcode) => lastReg'.key = k
       /\ Cardinality({k \in DOMAIN barcodes'.entries :
                         SamePair(barcodes'.entries[k], lastReg'.bcode)}) = 1
       /\ barcodes'.entries[lastReg'.key] = lastReg'.bcode
       /\ (/\ lastReg'.key \in DOMAIN barcodes.entries
           /\ barcodes.entries[lastReg'.key] = lastReg'.bcode) =>
            barcodes' = barcodes
       /\ DOMAIN barcodes'.entries = DOMAIN keys'
     ]_vars

\* C4 witness: a key returned twice, and the one entry of the registry
\* holds the symbol of the second registration
C4_Witness ==
  /\ ~lastReg.panic
  /\ lastReg.key \in DOMAIN keys
  /\ keys[lastReg.key] = 2
  /\ DOMAIN barcodes.entries = {lastReg.key}
  /\ barcodes.entries[lastReg.key] = lastReg.bcode

\* the recorded Barcode call ended with a draw
Drawn(call) == NumCalls(call, "Image") = 1

\* the image name a recorded Barcode call drew
DrawnName(call) == CallsOf(call.calls, "Image")[1].a[1]

\* two keys of the registry whose symbols have the same content and
\* different kinds
SameContentOtherKind(regs, k1, k2) ==
  /\ k1 \in DOMAIN regs.entries
  /\ k2 \in DOMAIN regs.entries
  /\ regs.entries[k1].content = regs.entries[k2].content
  /\ regs.entries[k1].kind # regs.entries[k2].kind

\* C5 as stated: two barcodes of different symbologies with the same
\* content, placed one after the other at the same position with their
\* keys, are drawn under the same placement name, and the second placement
\* makes no RegisterImageReader call.
C5_Original ==
  [][(/\ BarcodeStep
      /\ nCalls >= 1
      /\ SameContentOtherKind(barcodes, last.code, last'.code)
      /\ last.x = last'.x /\ last.y = last'.y
      /\ Drawn(last) /\ Drawn(last')) =>
       /\ DrawnName(last') = DrawnName(last)
       /\ NumCalls(last', "RegisterImageReader") = 0]_vars

\* C5 as amended: the placement name contains the registry key and with it
\* the kind: two barcodes of different symbologies with the same content,
\* placed one after the other at the same position with their keys, are
\* drawn under different names; the second placement leaves the image of
\* the first alone and registers its own unless the host has one under its
\* own name.
C5_KeyedByKind ==
  [][(/\ BarcodeStep
      /\ nCalls >= 1
      /\ SameContentOtherKind(barcodes, last.code, last'.code)
      /\ last.x = last'.x /\ last.y = last'.y
      /\ Drawn(last) /\ Drawn(last')) =>
       /\ DrawnName(last') # DrawnName(last)
       /\ DrawnName(last) \in DOMAIN images =>
            /\ DrawnName(last) \in DOMAIN images'
            /\ images'[DrawnName(last)] = images[DrawnName(last)]
       /\ DrawnName(last') \notin DOMAIN images =>
            /\ NumCalls(last', "RegisterImageReader") = 1
            /\ CallsOf(last'.calls, "RegisterImageReader")[1].a[1]
                 = DrawnName(last')]_vars

\* C5 witness: two keys of different kinds and the same content, each
\* placed once at the same position, each with an image of its own
C5_Witness ==
  /\ nCalls = 2
  /\ Drawn(last)
  /\ \E k \in DOMAIN barcodes.entries :
       /\ SameContentOtherKind(barcodes, k, last.code)
       /\ uniqueBarcodeName(k, last.x, last.y) \in DOMAIN images
       /\ DrawnName(last) \in DOMAIN images
       /\ images[uniqueBarcodeName(k, last.x, last.y)].kind
            # images[DrawnName(last)].kind
       /\ regCalls[uniqueBarcodeName(k, last.x, last.y)] = 1
       /\ regCalls[DrawnName(last)] = 1

\* what barcode.Scale answers for the symbol and size of a recorded call
Scaled(call) ==
  Scale(barcodes.entries[call.code], int(convertTo96Dpi(ratio, call.w)),
        int(convertTo96Dpi(ratio, call.h)))

\* a recorded call whose key is registered and whose placement name has no
\* image in the host: the miss path
Misses(call) ==
  /\ call.code \in DOMAIN barcodes.entries
  /\ NameOf(call) \notin DOMAIN images

\* the last host call of a recorded Barcode call
LastCall(call) == call.calls[Len(call.calls)]

\* C6 as stated: of two Barcode calls in sequence with the same key and
\* position and different sizes, only the first scales and calls
\* RegisterImageReader; the second draws the image the first registered.
C6_Original ==
  [][(/\ BarcodeStep
      /\ nCalls >= 1
      /\ SamePlacement(last, last')
      /\ (last.w # last'.w \/ last.h # last'.h)
      /\ NumCalls(last, "RegisterImageReader") = 1) =>
       /\ NumCalls(last', "GetConversionRatio") = 0
       /\ NumCalls(last', "RegisterImageReader") = 0
       /\ Drawn(last')
       /\ DrawnName(last')
            = CallsOf(last.calls, "RegisterImageReader")[1].a[1]]_vars

\* C6 as amended: after a Barcode call that registered the image of a key
\* and position with a host that stored it, a call with the same key and
\* position and another size does not scale and does not register: the
\* host's image keeps the pixel size of the first call, and the draw call
\* names that image and passes no size.  When the host did not store the
\* image, the second call takes the miss path with its own size: it
\* converts and scales it, and when the size scales and encodes it calls
\* RegisterImageReader with the image of its own pixel size and draws;
\* when it does not, the call ends with SetError and neither registers nor
\* draws.
C6_Collision ==
  [][(/\ BarcodeStep
      /\ nCalls >= 1
      /\ SamePlacement(last, last')
      /\ (last.w # last'.w \/ last.h # last'.h)
      /\ NumCalls(last, "RegisterImageReader") = 1) =>
       /\ NameOf(last) \in DOMAIN images =>
            /\ NumCalls(last', "GetConversionRatio") = 0
            /\ NumCalls(last', "RegisterImageReader") = 0
            /\ images' = images
            /\ images'[NameOf(last)].width
                 = int(convertTo96Dpi(ratio, last.w))
            /\ images'[NameOf(last)].height
                 = int(convertTo96Dpi(ratio, last.h))
            /\ Drawn(last')
            /\ DrawnName(last')
                 = CallsOf(last.calls, "RegisterImageReader")[1].a[1]
            /\ CallsOf(last'.calls, "Image")[1].a[4] = RatInt(0)
            /\ CallsOf(last'.calls, "Image")[1].a[5] = RatInt(0)
       /\ NameOf(last) \notin DOMAIN images =>
            /\ NumCalls(last', "GetConversionRatio") = 2
            /\ (/\ Scaled(last').err = NoError
                /\ jpegEncode(Scaled(last').bcode) = NoError) =>
                 /\ CallsOf(last'.calls, "RegisterImageReader")
                      = <<Call("RegisterImageReader",
                               <<NameOf(last'), "jpg", Scaled(last').bcode>>)>>
                 /\ Scaled(last').bcode.width
                      = int(convertTo96Dpi(ratio, last'.w))
                 /\ Scaled(last').bcode.height
                      = int(convertTo96Dpi(ratio, last'.h))
                 /\ NumCalls(last', "SetError") = 0
                 /\ Drawn(last')
            /\ (\/ Scaled(last').err # NoError
                \/ jpegEncode(Scaled(last').bcode) # NoError) =>
                 /\ NumCalls(last', "RegisterImageReader") = 0
                 /\ NumCalls(last', "SetError") = 1
                 /\ NumCalls(last', "Image") = 0
                 /\ images' = images]_vars

\* C6 witness: the last call drew an image that was registered once, by an
\* earlier call, in another pixel width than the last call asked for
C6_Witness ==
  /\ nCalls = 2
  /\ Drawn(last)
  /\ NumCalls(last, "GetConversionRatio") = 0
  /\ DrawnName(last) \in DOMAIN images
  /\ images[DrawnName(last)].width # int(convertTo96Dpi(ratio, last.w))
  /\ regCalls[DrawnName(last)] = 1
  /\ drawCalls[DrawnName(last)] = 2

\* C7: on the miss path, when the JPEG encoding fails or the host does not
\* register the image under the placement name, Barcode makes a SetError
\* call and no Image call.  The code drops the result of
\* RegisterImageReader, so a host that does not register the image is
\* followed by the Image call and no SetError call.
C7_Original ==
  [][(/\ BarcodeStep
      /\ Misses(last')
      /\ Scaled(last').err = NoError
      /\ \/ jpegEncode(Scaled(last').bcode) # NoError
         \/ NameOf(last') \notin DOMAIN images') =>
       /\ NumCalls(last', "SetError") = 1
       /\ NumCalls(last', "Image") = 0]_vars

\* C8: on the miss path, when scaling fails, Barcode calls SetError with the
\* scale error and returns: no RegisterImageReader call, no Image call, no
\* image under the placement name; the next Barcode call with the same key
\* and position scales again.
C8_ScaleFailure ==
  [][BarcodeStep =>
       /\ (Misses(last') /\ Scaled(last').err # NoError) =>
            /\ NumCalls(last', "SetError") = 1
            /\ LastCall(last') = Call("SetError", <<Scaled(last').err>>)
            /\ err' = Scaled(last').err
            /\ NumCalls(last', "RegisterImageReader") = 0
            /\ NumCalls(last', "Image") = 0
            /\ NameOf(last') \notin DOMAIN images'
            /\ images' = images
       /\ (/\ nCalls >= 1
           /\ LastCall(last) = Call("SetError", <<ErrScale>>)
           /\ SamePlacement(last, last')) =>
            /\ NumCalls(last', "GetImageInfo") = 1
            /\ NumCalls(last', "GetConversionRatio") = 2]_vars

\* C8 witness: the last Barcode call was for a registered key, failed to
\* scale and ended with SetError; its placement name has no image
C8_Witness ==
  /\ nCalls >= 1
  /\ Misses(last)
  /\ Scaled(last).err # NoError
  /\ LastCall(last) = Call("SetError", <<ErrScale>>)
  /\ err = ErrScale

\* C9: after a Barcode call that ended with SetError, a Barcode call for a
\* registered key whose image the host has, or whose size scales and
\* encodes, ends with the Image call and makes no SetError call: the error
\* of the host is not looked at.
C9_NonFatal ==
  [][(/\ BarcodeStep
      /\ nCalls >= 1
      /\ NumCalls(last, "SetError") = 1
      /\ last'.code \in DOMAIN barcodes.entries
      /\ \/ NameOf(last') \in DOMAIN images
         \/ /\ Scaled(last').err = NoError
            /\ jpegEncode(Scaled(last').bcode) = NoError) =>
       /\ Drawn(last')
       /\ LastCall(last').m = "Image"
       /\ NumCalls(last', "SetError") = 0
       /\ err' = err
       /\ err' # NoError]_vars

\* C9 witness: the last Barcode call drew although an earlier Barcode call
\* had set the host's error
C9_Witness ==
  /\ nCalls = 2
  /\ Drawn(last)
  /\ LastCall(last).m = "Image"
  /\ err \in {ErrNotFound, ErrScale, ErrJpeg}

\* C10: convertTo96Dpi returns value * ratio / 72 * 96 for the host's
\* ratio: 96 for ratio 1 and value 72, 96 for ratio 2 and value 36; it
\* changes neither the registry nor the host document.
C10_Conversion ==
  [][conv' # conv =>
       /\ conv'.result.n * 72 * conv'.value.d * ratio.d
            = conv'.value.n * ratio.n * 96 * conv'.result.d
       /\ (ratio = RatInt(1) /\ conv'.value = RatInt(72)) =>
            conv'.result = RatInt(96)
       /\ (ratio = RatInt(2) /\ conv'.value = RatInt(36)) =>
            conv'.result = RatInt(96)
       /\ UNCHANGED <<barcodes, keys, images, ratio, err, regCalls,
                      drawCalls>>]_vars

\* C10 witness: 36 units of a host with ratio 2 have been converted to 96
C10_Witness ==
  /\ ratio = RatInt(2)
  /\ conv = [value |-> RatInt(36), result |-> RatInt(96)]

\* C11 as stated: a registration of a barcode returns a key different from
\* the key of every registered barcode whose (kind, content) pair differs
\* from its own, and leaves that barcode in the registry as it was.
C11_Original ==
  [][(RegisterStep /\ ~lastReg'.panic) =>
       \A k \in DOMAIN barcodes.entries :
         ~SamePair(barcodes.entries[k], lastReg'.bcode) =>
           /\ lastReg'.key # k
           /\ k \in DOMAIN barcodes'.entries
           /\ barcodes'.entries[k] = barcodes.entries[k]]_vars

\* C12: every Barcode call ends with exactly one Image call and no SetError
\* call, or with exactly one SetError call and no Image call, and that call
\* is its last host call; it looks the image up at most once, scales at
\* most once (one conversion of the width and one of the height) and
\* registers at most once; when the host has the image of the placement
\* name, its host calls are the lookup and the draw and nothing else.
C12_SingleOutcome ==
  [][BarcodeStep =>
       /\ \/ NumCalls(last', "Image") = 1 /\ NumCalls(last', "SetError") = 0
          \/ NumCalls(last', "SetError") = 1 /\ NumCalls(last', "Image") = 0
       /\ LastCall(last').m \in {"Image", "SetError"}
       /\ NumCalls(last', "GetImageInfo") <= 1
       /\ NumCalls(last', "GetConversionRatio") \in {0, 2}
       /\ NumCalls(last', "RegisterImageReader") <= 1
       /\ (/\ last'.code \in DOMAIN barcodes.entries
           /\ NameOf(last') \in DOMAIN images) =>
            /\ Len(last'.calls) = 2
            /\ last'.calls[1] = Call("GetImageInfo", <<NameOf(last')>>)
            /\ last'.calls[2].m = "Image"
            /\ images' = images]_vars

\* C12 witness: three Barcode calls, the last one a hit of two host calls
\* on an image that an earlier call registered
C12_Witness ==
  /\ nCalls = 3
  /\ Len(last.calls) = 2
  /\ Drawn(last)
  /\ DrawnName(last) \in DOMAIN images
  /\ err # NoError

\* C13: every key that Register has returned is in the registry after
\* every later Register, Register<Symbology> and Barcode call, and a Barcode
\* call with such a key looks the image up and does not take the not-found
\* path.
C13_NoEviction ==
  [][/\ \A k \in DOMAIN keys : k \in DOMAIN barcodes'.entries
     /\ \A k \in DOMAIN barcodes.entries : k \in DOMAIN barcodes'.entries
     /\ (BarcodeStep /\ last'.code \in DOMAIN keys) =>
          /\ Found(last')
          /\ \A i \in DOMAIN last'.calls :
               last'.calls[i] # Call("SetError", <<ErrNotFound>>)]_vars

\* C13 witness: two keys were returned, a later registration failed in the
\* encoder, and the most recent Barcode call found its key
C13_Witness ==
  /\ Cardinality(DOMAIN keys) = 2
  /\ nRegs = 3
  /\ lastReg.panic
  /\ nCalls = 1
  /\ Found(last)
  /\ DOMAIN keys = DOMAIN barcodes.entries

\* C14: a Register<Symbology> call whose encoder reports an error leaves
\* the entries of the registry as they were, returns no key, and has called
\* SetError on the host document with the encoder's error.
C14_EncoderError ==
  [][(RegisterStep /\ lastReg'.encErr # NoError) =>
       /\ barcodes'.entries = barcodes.entries
       /\ keys' = keys
       /\ err' = lastReg'.encErr
       /\ images' = images]_vars

\* C14 witness: a registry with an entry, and after it a Register<Symbology>
\* call whose encoder failed
C14_Witness ==
  /\ nRegs = 2
  /\ len(barcodes) = 1
  /\ lastReg.encErr = ErrEncode
  /\ lastReg.bcode.nil
  /\ err = ErrEncode

\* the Barcode call of a goroutine got nil from GetImageInfo and has come
\* past Scale and registerScaledBarcode without an error
PastMiss(c) ==
  /\ c.pc \in {"draw", "done"}
  /\ c.calls # <<>>
  /\ c.calls[1].m = "GetImageInfo"
  /\ c.info.nil
  /\ CallsOf(c.calls, "SetError") = <<>>

\* C15: Barcode does not look at the image table again after GetImageInfo:
\* when the calls of two goroutines for the same key and position both got
\* nil from GetImageInfo and both scale and encode, each of them calls
\* RegisterImageReader, so the host receives two RegisterImageReader calls
\* for the one placement name.
C15_Race ==
  \A p \in Procs, q \in Procs :
    (/\ p # q
     /\ PastMiss(procs[p])
     /\ PastMiss(procs[q])
     /\ SamePlacement(procs[p], procs[q])) =>
      /\ NumCalls(procs[p], "RegisterImageReader") = 1
      /\ NumCalls(procs[q], "RegisterImageReader") = 1
      /\ regCalls[NameOf(procs[p])] >= 2

\* C15 witness: the only two Barcode calls of the run, both for one placement
\* name, are both between their RegisterImageReader call and their Image
\* call: both got nil from GetImageInfo, the host received two
\* RegisterImageReader calls for the name and has stored the image
C15_Witness ==
  /\ nCalls = 2
  /\ \A p \in Procs : procs[p].pc = "draw" /\ procs[p].info.nil
  /\ SamePlacement(procs[1], procs[2])
  /\ NameOf(procs[1]) \in DOMAIN images
  /\ regCalls[NameOf(procs[1])] = 2

\* C16: every Image call of a Barcode call is its last host call and is
\* Image(name, x, y, 0, 0, flow, "jpg", 0, "") with the x, y and flow of the
\* caller and the name that the call asked GetImageInfo for; after the call
\* the host has an image under that name, unless it did not store the
\* image that this call handed to RegisterImageReader.
C16_Draw ==
  [][BarcodeStep =>
       \A i \in DOMAIN last'.calls :
         last'.calls[i].m = "Image" =>
           /\ i = Len(last'.calls)
           /\ last'.calls[1].m = "GetImageInfo"
           /\ last'.calls[i] =
                Call("Image", <<last'.calls[1].a[1], last'.x, last'.y,
                                RatInt(0), RatInt(0), last'.flow, "jpg", 0,
                                "">>)
           /\ last'.calls[1].a[1] = NameOf(last')
           /\ \/ NameOf(last') \in DOMAIN images'
              \/ /\ NumCalls(last', "RegisterImageReader") = 1
                 /\ images' = images]_vars

\* C16 witness: the first Barcode call of a run, with flow set, registered
\* its image with a host that stored it and drew it
C16_Witness ==
  /\ nCalls = 1
  /\ last.flow
  /\ Drawn(last)
  /\ NumCalls(last, "RegisterImageReader") = 1
  /\ DrawnName(last) \in DOMAIN images
  /\ drawCalls[DrawnName(last)] = 1

\* C17: a Barcode call, whatever its outcome, leaves the registry as it
\* was: the same keys with the same symbols, and the same record of
\* returned keys; a step that changes the registry is a registration call.
C17_RegistryFrame ==
  [][/\ BarcodeStep =>
          /\ barcodes' = barcodes
          /\ DOMAIN barcodes'.entries = DOMAIN barcodes.entries
          /\ \A k \in DOMAIN barcodes.entries :
               barcodes'.entries[k] = barcodes.entries[k]
          /\ keys' = keys
     /\ barcodes' # barcodes => RegisterStep]_vars

\* C17 witness: a registry of two symbols after two Barcode calls, of
\* which one did not find its key and the last one registered an image
C17_Witness ==
  /\ len(barcodes) = 2
  /\ nCalls = 2
  /\ err = ErrNotFound
  /\ NumCalls(last, "RegisterImageReader") = 1
  /\ Drawn(last)

\* a step that is an ImportPage call
ImportStep == imports'.n = imports.n + 1

\* the calls of the host document among the calls of an ImportPage
HostCalls(calls) ==
  SelectSeq(calls, LAMBDA c : c.m \in {"GetNextObjectID", "ImportObjects",
                                       "ImportObjPos", "ImportTemplates",
                                       "UseImportedTemplate", "SetError"})

\* C18: every ImportPage call sets the importer's next object ID to 3, once
\* and before it imports the page, whatever the host's GetNextObjectID() is
\* and whatever earlier calls imported, so the objects of the page are
\* numbered from 3; its calls of the host are ImportTemplates, then
\* ImportObjects, then ImportObjPos in the build that has it, and no other
\* (no GetNextObjectID, no SetError); it returns the template id that the
\* importer's ImportPage produced.
C18_ImportPage ==
  [][ImportStep =>
       LET c == imports'.calls
           src == imports'.sourceFile
       IN /\ CallsOf(c, "fpdi.SetNextObjectID")
               = <<Call("fpdi.SetNextObjectID", <<3>>)>>
          /\ \E i \in DOMAIN c, j \in DOMAIN c :
               /\ i < j
               /\ c[i].m = "fpdi.SetNextObjectID"
               /\ c[j].m = "fpdi.ImportPage"
          /\ [i \in DOMAIN HostCalls(c) |-> HostCalls(c)[i].m]
               = <<"ImportTemplates", "ImportObjects">>
                   \o IF imports.objPos THEN <<"ImportObjPos">> ELSE <<>>
          /\ CallsOf(c, "ImportTemplates")[1].a[1].id = 3
          /\ fpdi'.writers[src].nextObjId = 3 + ObjsPerTemplate
          /\ imports'.ret = fpdi.tplN
          /\ CallsOf(c, "ImportTemplates")[1].a[1].tpl = imports'.ret]_vars

\* C18 witness: the third ImportPage call of a run over both source files,
\* in the build with ImportObjPos and with a host whose next object ID is 7
C18_Witness ==
  /\ imports.n = 3
  /\ imports.objPos
  /\ imports.nextObjectID = 7
  /\ imports.ret = 2
  /\ \A f \in Sources : fpdi.writers[f].objs = 3 .. (2 + ObjsPerTemplate)
  /\ NumCalls(imports, "ImportObjPos") = 1

====
